---- MODULE Spec2Model ----
(***************************************************************************)
(* A model of the ilastik prediction web server (src/server.py): the       *)
(* handle-based object registry `Context`, its HTTP routes, and the tiled  *)
(* prediction pipeline `do_predictions`.                                   *)
(*                                                                         *)
(* Python strings are modelled as sequences of tokens (a token is a TLA+   *)
(* string): a handle is <<"pointer@">> \o id, a class name of a URL is a   *)
(* sequence of one-character tokens.                                       *)
(***************************************************************************)
EXTENDS Integers, Sequences, FiniteSets, TLC

VARIABLES
    objects,    \* Context.objects: handle -> stored object
    minted,     \* number of uuid4() values drawn so far
    last,       \* the most recent registry call or HTTP request and its outcome
    \* one do_predictions call
    env,        \* attributes of the stored data source and classifier
    request,    \* the arguments: roi, classifier_id, datasource_id
    ppc,        \* where the calling thread is in do_predictions
    classifier, \* local variable classifier
    datasource, \* local variable datasource
    backed_roi, \* local variable backed_roi
    tiles,      \* the tiles backed_roi.get_tiles() yields, in order
    tasks,      \* the tasks submitted to the executor, in submission order
    predictions, \* the output buffer: cell -> number of writes it has received
    prediction_values, \* the output buffer: cell -> the value it holds
    \* request threads that call the registry at the same time
    threads     \* thread -> the call it is in and the outcome of its last call,
                \* or the local variables of its do_predictions call

regVars == <<objects, minted>>
predVars == <<env, request, ppc, classifier, datasource, backed_roi, tiles, tasks,
              predictions, prediction_values>>
vars == <<objects, minted, last, env, request, ppc, classifier, datasource,
          backed_roi, tiles, tasks, predictions, prediction_values, threads>>

(***************************************************************************)
(* Bounds of the model.                                                    *)
(***************************************************************************)
\* uuid4() is drawn at most this many times in one behaviour
MaxUuid == 2
\* the largest number of items given to one call of the workflow adapter
MaxItems == 2
\* the largest extent of a data source along an axis
MaxExtent == 3
\* the number of worker threads of the executor's pool
MaxWorkers == 2

(***************************************************************************)
(* Classes (src/server.py lines 51-73).                                    *)
(***************************************************************************)
\* the classes of workflow_classes that the model instantiates, with the base
\* class of each ("object" for a root)
BaseOf ==
    [c \in {"DataSource", "SequenceDataSource", "FeatureExtractor", "GaussianSmoothing",
            "PixelClassifier", "VigraPixelClassifier", "Annotation"} |->
        CASE c = "SequenceDataSource" -> "DataSource"
          [] c = "GaussianSmoothing" -> "FeatureExtractor"
          [] c = "VigraPixelClassifier" -> "PixelClassifier"
          [] OTHER -> "object"]

ClassNames == DOMAIN BaseOf

\* the result of get_class_named for a name that is no key of workflow_classes
NoneClass == "None"

RECURSIVE issubclass(_, _)
\* Python's issubclass(c, k) along the single-inheritance chain BaseOf
issubclass(c, k) ==
    IF c = k THEN TRUE
    ELSE IF c \in ClassNames THEN issubclass(BaseOf[c], k)
    ELSE FALSE

\* workflow_classes: class name (a str) -> class
workflow_classes ==
    (<<"D","a","t","a","S","o","u","r","c","e">> :> "DataSource") @@
    (<<"S","e","q","u","e","n","c","e","D","a","t","a","S","o","u","r","c","e">>
        :> "SequenceDataSource") @@
    (<<"F","e","a","t","u","r","e","E","x","t","r","a","c","t","o","r">>
        :> "FeatureExtractor") @@
    (<<"G","a","u","s","s","i","a","n","S","m","o","o","t","h","i","n","g">>
        :> "GaussianSmoothing") @@
    (<<"P","i","x","e","l","C","l","a","s","s","i","f","i","e","r">> :> "PixelClassifier") @@
    (<<"V","i","g","r","a","P","i","x","e","l","C","l","a","s","s","i","f","i","e","r">>
        :> "VigraPixelClassifier") @@
    (<<"A","n","n","o","t","a","t","i","o","n">> :> "Annotation")

LowerCase == <<"a","b","c","d","e","f","g","h","i","j","k","l","m",
               "n","o","p","q","r","s","t","u","v","w","x","y","z">>
UpperCase == <<"A","B","C","D","E","F","G","H","I","J","K","L","M",
               "N","O","P","Q","R","S","T","U","V","W","X","Y","Z">>

IsLetter(ch) == \E i \in 1..26 : ch = LowerCase[i] \/ ch = UpperCase[i]
LetterIndex(ch) == CHOOSE i \in 1..26 : ch = LowerCase[i] \/ ch = UpperCase[i]

\* str.title(): a letter that starts a run of letters is upper-cased, every
\* other letter is lower-cased, other characters are kept
title(s) ==
    [i \in 1..Len(s) |->
        IF ~IsLetter(s[i]) THEN s[i]
        ELSE IF i = 1 \/ ~IsLetter(s[i - 1]) THEN UpperCase[LetterIndex(s[i])]
        ELSE LowerCase[LetterIndex(s[i])]]

IsNotUnderscore(ch) == ch # "_"

\* str.replace("_", "")
replace_underscores(s) == SelectSeq(s, IsNotUnderscore)

\* what the except branch of get_class_named (lines 92-96) can do: `import pydevd`
\* raises where pydevd is not installed; where it is, the function falls off its
\* end and returns None
ExceptBranchOutcomes == {"ModuleNotFoundError", "returns None"}

\* the names the class routes are requested with
RequestedNames ==
    { <<"d","a","t","a","_","s","o","u","r","c","e">>,
      <<"d","a","t","a","s","o","u","r","c","e">>,
      <<"G","a","u","s","s","i","a","n","S","m","o","o","t","h","i","n","g">>,
      <<"p","i","x","e","l","_","c","l","a","s","s","i","f","i","e","r">> }

\* get_class_named, lines 89-91: the key looked up in workflow_classes and the
\* class found under it (NoneClass when the lookup raises KeyError)
lookup_class(name) ==
    LET n == IF name \in DOMAIN workflow_classes THEN name
             ELSE replace_underscores(title(name))
    IN  IF n \in DOMAIN workflow_classes THEN workflow_classes[n] ELSE NoneClass

\* lookup_class of every requested name, computed once
class_of_name == [name \in RequestedNames |-> lookup_class(name)]

\* Context.get_class_named (lines 87-96): [exc, klass]
get_class_named(name, outcome) ==
    IF class_of_name[name] # NoneClass
    THEN [exc |-> "", klass |-> class_of_name[name]]
    ELSE IF outcome = "ModuleNotFoundError"
    THEN [exc |-> "ModuleNotFoundError", klass |-> NoneClass]
    ELSE [exc |-> "", klass |-> NoneClass]

(***************************************************************************)
(* Objects, ids and handles.                                               *)
(***************************************************************************)
\* the objects a client stores: each has a concrete class and an identity
ObjectPool ==
    { [cls |-> "SequenceDataSource", oid |-> 1],
      [cls |-> "GaussianSmoothing", oid |-> 2],
      [cls |-> "VigraPixelClassifier", oid |-> 3] }

\* "no object": the value of a result field of a call that returned none
NoObj == [cls |-> "None", oid |-> 0]

\* Python's None as the obj_id argument of store: no str equals it
None == <<"<None>">>

\* str(uuid.uuid4()) of the n-th draw: draws are pairwise different
uuid4(n) == <<"uuid", ToString(n)>>

\* ids a client can supply: ids of its own choice, and the text of any uuid
\* the server has handed out
ClientIds(n) == {<<"a">>} \cup {uuid4(i) : i \in 1..n}

\* f"pointer@{obj_id}" (line 112)
Key(obj_id) == <<"pointer@">> \o obj_id

\* every handle a request can name
Handles == {Key(id) : id \in ClientIds(MaxUuid)}

\* dict item assignment d[k] = v
DictSet(d, k, v) == [x \in DOMAIN d \cup {k} |-> IF x = k THEN v ELSE d[x]]

\* dict.pop(k) of a present key: the remaining mapping
DictPop(d, k) == [x \in DOMAIN d \ {k} |-> d[x]]

(***************************************************************************)
(* Context (src/server.py lines 79-137), as functions of the registry.     *)
(***************************************************************************)
\* Context.load (lines 105-107): cls.objects[key]
load(objs, key) ==
    IF key \in DOMAIN objs THEN [exc |-> "", ret |-> objs[key]]
    ELSE [exc |-> "KeyError", ret |-> NoObj]

\* store with the id of an anonymous object taken from the size of the registry
\* instead of uuid4()
store_sized_id(objs, n, obj_id, obj) ==
    LET id == IF obj_id # None THEN obj_id ELSE uuid4(Cardinality(DOMAIN objs) + 1)
        key == Key(id)
    IN  [objects |-> DictSet(objs, key, obj),
         minted |-> IF obj_id # None THEN n ELSE n + 1,
         key |-> key]

\* store that keeps an entry already present (dict.setdefault)
store_setdefault(objs, n, obj_id, obj) ==
    LET id == IF obj_id # None THEN obj_id ELSE uuid4(n + 1)
        key == Key(id)
    IN  [objects |-> IF key \in DOMAIN objs THEN objs ELSE DictSet(objs, key, obj),
         minted |-> IF obj_id # None THEN n ELSE n + 1,
         key |-> key]

\* store that rebinds the registry to a new dict holding the one entry
store_fresh_dict(objs, n, obj_id, obj) ==
    LET id == IF obj_id # None THEN obj_id ELSE uuid4(n + 1)
        key == Key(id)
    IN  [objects |-> (key :> obj),
         minted |-> IF obj_id # None THEN n ELSE n + 1,
         key |-> key]

\* Context.store (lines 109-114)
store(objs, n, obj_id, obj) ==
    LET id == IF obj_id # None THEN obj_id ELSE uuid4(n + 1)
        key == Key(id)
    IN  [objects |-> DictSet(objs, key, obj),
         minted |-> IF obj_id # None THEN n ELSE n + 1,
         key |-> key]

\* remove_check with the entry looked up by dict.get: an absent handle yields
\* None, whose class fails the type check
remove_check_get(objs, klass, key) ==
    IF klass = NoneClass THEN "TypeError"
    ELSE IF key \notin DOMAIN objs THEN "Exception"
    ELSE IF ~issubclass(objs[key].cls, klass) THEN "Exception"
    ELSE ""

\* Context.remove, lines 118-120: the lookup of the entry's class and the
\* type check; the exception raised, or "" when the check passes
remove_check(objs, klass, key) ==
    IF key \notin DOMAIN objs THEN "KeyError"
    ELSE IF klass = NoneClass THEN "TypeError"
    ELSE IF ~issubclass(objs[key].cls, klass) THEN "Exception"
    ELSE ""

\* remove_pop that reads the entry and leaves it in the registry
remove_pop_keeps(objs, key) ==
    IF key \in DOMAIN objs
    THEN [exc |-> "", objects |-> objs, ret |-> objs[key]]
    ELSE [exc |-> "KeyError", objects |-> objs, ret |-> NoObj]

\* Context.remove, line 121: cls.objects.pop(key)
remove_pop(objs, key) ==
    IF key \in DOMAIN objs
    THEN [exc |-> "", objects |-> DictPop(objs, key), ret |-> objs[key]]
    ELSE [exc |-> "KeyError", objects |-> objs, ret |-> NoObj]

\* remove that pops the entry first and checks its class afterwards
remove_pop_first(objs, klass, key) ==
    LET exc == remove_check(objs, klass, key)
        popped == remove_pop(objs, key)
    IN  IF exc # "" THEN [exc |-> exc, objects |-> popped.objects, ret |-> NoObj]
        ELSE popped

\* Context.remove (lines 116-121), run without interruption
remove(objs, klass, key) ==
    LET exc == remove_check(objs, klass, key)
    IN  IF exc # "" THEN [exc |-> exc, objects |-> objs, ret |-> NoObj]
        ELSE remove_pop(objs, key)

\* v.startswith("pointer@") (line 127)
startswith_pointer(v) == Len(v) >= 1 /\ v[1] = "pointer@"

\* the values of a payload: a str of the form, or the object a handle resolved to
StrValue(v) == [kind |-> "str", str |-> v, obj |-> NoObj]
ObjectValue(o) == [kind |-> "object", str |-> <<>>, obj |-> o]

\* get_request_payload that passes every form value on as it is
get_request_payload_unresolved(objs, form) ==
    [exc |-> "", payload |-> [k \in DOMAIN form |-> StrValue(form[k])]]

\* Context.get_request_payload (lines 123-133) of a request without files: the
\* form with every value that starts with "pointer@" replaced by its load, which
\* raises KeyError for a handle that is not stored
get_request_payload(objs, form) ==
    IF \E k \in DOMAIN form : startswith_pointer(form[k]) /\ load(objs, form[k]).exc # ""
    THEN [exc |-> "KeyError", payload |-> <<>>]
    ELSE [exc |-> "",
          payload |-> [k \in DOMAIN form |->
                        IF startswith_pointer(form[k])
                        THEN ObjectValue(load(objs, form[k]).ret)
                        ELSE StrValue(form[k])]]

\* request_payload.get("id") (line 102)
payload_get_id(payload) ==
    IF "id" \notin DOMAIN payload THEN None
    ELSE IF payload["id"].kind = "str" THEN payload["id"].str
    ELSE <<"<", payload["id"].obj.cls, " object>">>

\* what klass.from_json_data(request_payload) can do: build the object, or raise
ConstructOutcomes == {"ok", "Exception", "FeatureDataMismatchException"}

\* klass.from_json_data(request_payload) (line 101): None has no such attribute;
\* a class builds a new object of its own or raises
from_json_data(klass, payload, outcome) ==
    IF klass = NoneClass THEN [exc |-> "AttributeError", obj |-> NoObj]
    ELSE IF outcome # "ok" THEN [exc |-> outcome, obj |-> NoObj]
    ELSE [exc |-> "", obj |-> [cls |-> klass, oid |-> 4]]

\* Context.create (lines 98-103) for a request with the given form
create(objs, n, klass, form, outcome) ==
    LET p == get_request_payload(objs, form)
        c == from_json_data(klass, p.payload, outcome)
        s == store(objs, n, payload_get_id(p.payload), c.obj)
    IN  IF p.exc # ""
        THEN [exc |-> p.exc, objects |-> objs, minted |-> n, key |-> <<>>,
              obj |-> NoObj, args |-> <<>>]
        ELSE IF c.exc # ""
        THEN [exc |-> c.exc, objects |-> objs, minted |-> n, key |-> <<>>,
              obj |-> NoObj, args |-> p.payload]
        ELSE [exc |-> "", objects |-> s.objects, minted |-> s.minted, key |-> s.key,
              obj |-> c.obj, args |-> p.payload]

\* get_all that keeps the entries whose class is klass itself
get_all_exact_type(objs, klass) ==
    IF klass = NoneClass /\ DOMAIN objs # {}
    THEN [exc |-> "TypeError", ret |-> <<>>]
    ELSE LET keys == {key \in DOMAIN objs : objs[key].cls = klass}
         IN  [exc |-> "", ret |-> [key \in keys |-> objs[key]]]

\* Context.get_all (lines 135-137): isinstance(obj, None) raises TypeError, for
\* the first entry visited
get_all(objs, klass) ==
    IF klass = NoneClass /\ DOMAIN objs # {}
    THEN [exc |-> "TypeError", ret |-> <<>>]
    ELSE LET keys == {key \in DOMAIN objs : issubclass(objs[key].cls, klass)}
         IN  [exc |-> "", ret |-> [key \in keys |-> objs[key]]]

(***************************************************************************)
(* The registry, one call at a time.                                       *)
(***************************************************************************)
\* the record of a call: what was called, with what, what was stored under the
\* handle before it, and what came of it; for a create, the form of the request
\* and the payload the object was built from; for a list, the mapping returned;
\* for a call of the workflow adapter, the items given (args) and the handles
\* returned (listing)
Call(op, klass, obj_id, key, obj, exc, ret, status, body) ==
    [op |-> op, klass |-> klass, obj_id |-> obj_id, key |-> key, obj |-> obj,
     old |-> load(objects, key).ret,
     exc |-> exc, ret |-> ret, status |-> status, body |-> body,
     form |-> <<>>, args |-> <<>>, listing |-> <<>>]

NoCall ==
    [op |-> "none", klass |-> NoneClass, obj_id |-> None, key |-> <<>>, obj |-> NoObj,
     old |-> NoObj, exc |-> "", ret |-> NoObj, status |-> 0, body |-> <<>>,
     form |-> <<>>, args |-> <<>>, listing |-> <<>>]

\* no do_predictions call is under way
PredIdle ==
    /\ env = <<>>
    /\ request = <<>>
    /\ ppc = "idle"
    /\ classifier = NoObj
    /\ datasource = NoObj
    /\ backed_roi = <<>>
    /\ tiles = <<>>
    /\ tasks = <<>>
    /\ predictions = <<>>
    /\ prediction_values = <<>>

Init ==
    /\ objects = <<>>
    /\ minted = 0
    /\ last = NoCall
    /\ PredIdle
    /\ threads = <<>>

\* Context.store(obj_id, obj) with a client-supplied id
Store(obj_id, obj) ==
    LET r == store(objects, minted, obj_id, obj)
    IN  /\ objects' = r.objects
        /\ minted' = r.minted
        /\ last' = Call("store", obj.cls, obj_id, r.key, obj, "", NoObj, 0, r.key)
        /\ UNCHANGED <<predVars, threads>>

\* Context.store(None, obj): the handle is minted from uuid4()
StoreNone(obj) ==
    /\ minted < MaxUuid
    /\ LET r == store(objects, minted, None, obj)
       IN  /\ objects' = r.objects
           /\ minted' = r.minted
           /\ last' = Call("store", obj.cls, None, r.key, obj, "", NoObj, 0, r.key)
           /\ UNCHANGED <<predVars, threads>>

\* Context.load(key)
Load(key) ==
    LET r == load(objects, key)
    IN  /\ last' = Call("load", NoneClass, None, key, NoObj, r.exc, r.ret, 0, <<>>)
        /\ UNCHANGED <<regVars, predVars, threads>>

\* Context.remove(klass, key)
Remove(klass, key) ==
    LET r == remove(objects, klass, key)
    IN  /\ objects' = r.objects
        /\ last' = Call("remove", klass, None, key, NoObj, r.exc, r.ret, 0, <<>>)
        /\ UNCHANGED <<minted, predVars, threads>>

\* str(error) of an exception
str(exc) == <<"message of ", exc>>

\* handle_feature_data_mismatch (lines 331-333)
handle_feature_data_mismatch(error) == [status |-> 400, body |-> str(error)]

\* the response flask sends for a view: the view's own response when it returns,
\* the registered error handler's for a FeatureDataMismatchException raised in
\* the view, and status 500 for any other exception
ResponseOf(exc, body) ==
    IF exc = "" THEN [status |-> 200, body |-> body]
    ELSE IF exc = "FeatureDataMismatchException" THEN handle_feature_data_mismatch(exc)
    ELSE [status |-> 500, body |-> <<"Internal Server Error">>]

\* DELETE /<class_name>/<object_id>: remove_object (lines 325-328)
remove_object(class_name, object_id, outcome) ==
    LET k == get_class_named(class_name, outcome)
        r == IF k.exc # "" THEN [exc |-> k.exc, objects |-> objects, ret |-> NoObj]
             ELSE remove(objects, k.klass, object_id)
        resp == ResponseOf(r.exc, <<"id">> \o object_id)
    IN  /\ objects' = r.objects
        /\ last' = Call("DELETE", k.klass, None, object_id, NoObj, r.exc, r.ret,
                        resp.status, resp.body)
        /\ UNCHANGED <<minted, predVars, threads>>

Next ==
    \/ \E id \in ClientIds(minted), obj \in ObjectPool : Store(id, obj)
    \/ \E obj \in ObjectPool : StoreNone(obj)
    \/ \E key \in Handles : Load(key)
    \/ \E klass \in ClassNames, key \in Handles : Remove(klass, key)
    \/ \E name \in RequestedNames, key \in Handles, outcome \in ExceptBranchOutcomes :
            remove_object(name, key, outcome)

Spec == Init /\ [][Next]_vars

(***************************************************************************)
(* Properties of the registry, one call at a time.                         *)
(***************************************************************************)
\* every entry of d other than k is an entry of e, unchanged
OthersUnchanged(d, e, k) ==
    /\ DOMAIN d \ {k} = DOMAIN e \ {k}
    /\ \A x \in DOMAIN d \ {k} : e[x] = d[x]

\* C6: remove(expected_type, handle) of a present entry whose class is no
\* subclass of expected_type raises (TypeMismatch) and leaves the registry as it
\* was: load(handle) afterwards still returns the same object.
C6_RemoveWrongTypeKeepsEntry ==
    [][(/\ last'.op = "remove"
        /\ last'.key \in DOMAIN objects
        /\ ~issubclass(objects[last'.key].cls, last'.klass))
       => (/\ last'.exc = "Exception"
           /\ objects' = objects
           /\ load(objects', last'.key) = [exc |-> "", ret |-> objects[last'.key]])]_vars

\* a remove with the wrong type has just failed on a stored entry
C6_Witness ==
    /\ last.op = "remove"
    /\ last.exc = "Exception"
    /\ last.old \in ObjectPool
    /\ ~issubclass(last.old.cls, last.klass)
    /\ last.key \in DOMAIN objects

\* C7: remove(TypeOfX, h) of the entry h that holds X returns X, deletes the
\* entry h and no other, and load(h) afterwards fails with KeyError (NotFound);
\* in particular when h was minted by the call store(None, X) just before.
C7_RemoveReturnsAndDeletes ==
    [][(/\ last'.op = "remove"
        /\ last'.key \in DOMAIN objects
        /\ issubclass(objects[last'.key].cls, last'.klass))
       => (/\ last'.exc = ""
           /\ last'.ret = objects[last'.key]
           /\ (last.op = "store" /\ last.key = last'.key => last'.ret = last.obj)
           /\ last'.key \notin DOMAIN objects'
           /\ OthersUnchanged(objects, objects', last'.key)
           /\ load(objects', last'.key).exc = "KeyError")]_vars

\* the entry minted by store(None, X) has just been removed with X's own type,
\* while another entry was present
C7_Witness ==
    /\ last.op = "remove"
    /\ last.exc = ""
    /\ last.key = Key(uuid4(1))
    /\ last.klass = last.ret.cls
    /\ last.ret \in ObjectPool
    /\ objects # <<>>

\* C8: load and remove of a handle that is not in the registry raise KeyError
\* (NotFound) and leave the registry unchanged; DELETE /<class_name>/<object_id>
\* of such a handle answers with an error, never with the body {"id": object_id}.
C8_AbsentHandleFails ==
    [][(last'.op \in {"load", "remove", "DELETE"} /\ last'.key \notin DOMAIN objects)
       => (/\ objects' = objects
           /\ (last'.op \in {"load", "remove"} => last'.exc = "KeyError")
           /\ (last'.op = "DELETE"
                => (/\ last'.exc \in {"KeyError", "ModuleNotFoundError"}
                    /\ last'.status # 200
                    /\ last'.body # <<"id">> \o last'.key)))]_vars

\* DELETE of an unknown handle has just been answered, other entries present
C8_Witness ==
    /\ last.op = "DELETE"
    /\ last.key \notin DOMAIN objects
    /\ last.old = NoObj
    /\ last.exc = "KeyError"
    /\ last.status = 500
    /\ objects # <<>>

\* C9: store(None, X) returns a handle that was not in the registry before the
\* call, leaves every existing entry unchanged, and load of the handle returns X.
C9_StoreNoneMintsFresh ==
    [][(last'.op = "store" /\ last'.obj_id = None)
       => (/\ last'.key \notin DOMAIN objects
           /\ last'.body = last'.key
           /\ DOMAIN objects' = DOMAIN objects \cup {last'.key}
           /\ OthersUnchanged(objects, objects', last'.key)
           /\ load(objects', last'.key) = [exc |-> "", ret |-> last'.obj])]_vars

\* store(None, X) has just minted a second handle beside existing entries
C9_Witness ==
    /\ last.op = "store"
    /\ last.obj_id = None
    /\ last.key = Key(uuid4(2))
    /\ Cardinality(DOMAIN objects) >= 3
    /\ objects[last.key] = last.obj

\* C10: store(id, X) with a client-supplied id returns the handle
\* "pointer@" + id; after store(id, X) and then store(id, Y) the handle loads Y
\* (last write wins), the registry holds the same handles as before the second
\* call, and no other entry has changed.
C10_StoreIdLastWriteWins ==
    [][(last'.op = "store" /\ last'.obj_id # None)
       => (/\ last'.body = <<"pointer@">> \o last'.obj_id
           /\ last'.key = last'.body
           /\ load(objects', last'.key) = [exc |-> "", ret |-> last'.obj]
           /\ DOMAIN objects' = DOMAIN objects \cup {last'.key}
           /\ (last'.key \in DOMAIN objects => DOMAIN objects' = DOMAIN objects)
           /\ OthersUnchanged(objects, objects', last'.key))]_vars

\* store(id, Y) has just overwritten the X stored under the same id
C10_Witness ==
    /\ last.op = "store"
    /\ last.obj_id = <<"a">>
    /\ last.old \in ObjectPool
    /\ last.old # last.obj
    /\ objects[last.key] = last.obj
    /\ Cardinality(DOMAIN objects) >= 2

\* C11 as stated: once minted a handle denotes exactly one stored object until
\* it is explicitly removed: from one call to the next every successful load of
\* a present handle returns the same object, and an entry disappears only
\* through a successful explicit remove of its handle.
C11_HandleDenotesOneObject ==
    [][\A h \in DOMAIN objects :
        /\ load(objects', h).exc = "" => load(objects', h).ret = load(objects, h).ret
        /\ h \notin DOMAIN objects'
            => (last'.op \in {"remove", "DELETE"} /\ last'.key = h /\ last'.exc = "")]_vars

\* C11, amended: a handle denotes the object of the latest store under it.  The
\* object a present handle loads changes only by a store or create that names
\* the handle's id explicitly (never by a store that mints its id, nor by a
\* call on another handle), and then it is that call's object; an entry
\* disappears only through a successful explicit remove of its handle, which
\* returns the object it held.
C11_HandleStableUntilStoreOrRemove ==
    [][\A h \in DOMAIN objects :
        /\ (h \in DOMAIN objects' /\ objects'[h] # objects[h])
            => (/\ last'.op \in {"store", "POST"}
                /\ last'.obj_id # None
                /\ last'.key = h
                /\ last'.exc = ""
                /\ load(objects', h).ret = last'.obj)
        /\ h \notin DOMAIN objects'
            => (/\ last'.op \in {"remove", "DELETE"}
                /\ last'.key = h
                /\ last'.exc = ""
                /\ last'.ret = objects[h])]_vars

\* the handle minted for one object has just been bound to another object by a
\* store that names the minted id, while another entry stayed as it was
C11_Witness ==
    /\ last.op = "store"
    /\ last.obj_id = uuid4(1)
    /\ last.key = Key(uuid4(1))
    /\ last.old \in ObjectPool
    /\ last.old # last.obj
    /\ load(objects, last.key).ret = last.obj
    /\ Key(<<"a">>) \in DOMAIN objects

(***************************************************************************)
(* The class routes of the server over the registry, one request at a time. *)
(***************************************************************************)
\* the values of the form field next to "id": a plain str or the handle of the
\* first object stored at startup
FormValues == {<<"plain">>, Key(uuid4(1))}

\* the data sources stored at startup (lines 359-367)
SampleDataSources == {obj \in ObjectPool : issubclass(obj.cls, "DataSource")}

\* the forms of the create requests: with or without the field "id"
Forms ==
    {[ref |-> v] : v \in FormValues}
        \cup {[id |-> <<"a">>, ref |-> v] : v \in FormValues}

\* POST /<class_name>/: create_object (lines 336-344); the classes requested
\* here are not Annotation, so lines 342-343 are skipped
create_object(class_name, form, construct, outcome) ==
    /\ ("id" \notin DOMAIN form) => minted < MaxUuid
    /\ \E k \in {get_class_named(class_name, outcome)} :
       \E r \in {IF k.exc # ""
                  THEN [exc |-> k.exc, objects |-> objects, minted |-> minted,
                        key |-> <<>>, obj |-> NoObj, args |-> <<>>]
                  ELSE create(objects, minted, k.klass, form, construct)} :
       \E resp \in {ResponseOf(r.exc, r.key)} :
            /\ objects' = r.objects
            /\ minted' = r.minted
            /\ last' = [Call("POST", k.klass,
                             IF "id" \in DOMAIN form THEN form["id"] ELSE None,
                             r.key, r.obj, r.exc, NoObj, resp.status, resp.body)
                         EXCEPT !.form = form, !.args = r.args]
    /\ UNCHANGED <<predVars, threads>>

\* JsonSerializable.jsonify(mapping): a JSON document of the mapping
jsonify(mapping) == <<"json", mapping>>

\* GET /<class_name>/: list_objects (lines 347-350)
list_objects(class_name, outcome) ==
    /\ \E k \in {get_class_named(class_name, outcome)} :
       \E r \in {IF k.exc # "" THEN [exc |-> k.exc, ret |-> <<>>]
                  ELSE get_all(objects, k.klass)} :
       \E resp \in {ResponseOf(r.exc, jsonify(r.ret))} :
            last' = [Call("GET list", k.klass, None, <<>>, NoObj, r.exc, NoObj,
                          resp.status, resp.body)
                     EXCEPT !.listing = r.ret]
    /\ UNCHANGED <<regVars, predVars, threads>>

\* datasource.roi.shape and datasource.tile_shape of a stored data source
shape_of(obj) == [x |-> MaxExtent, y |-> MaxExtent, z |-> obj.oid, c |-> 1]
tile_shape_of(obj) == [x |-> 2, y |-> 2, z |-> 1, c |-> 1]

\* classifier.get_expected_roi(roi).shape: the shape of roi with one channel
\* for each class of the classifier
expected_shape(classifier_obj, shape) == [shape EXCEPT !.c = 2]

\* shape.to_tuple("xyz")
to_tuple_xyz(shape) == <<shape.x, shape.y, shape.z>>

\* info_dict whose loads take the entries out of the registry (dict.pop)
info_dict_pops(objs, classifier_id, datasource_id) ==
    LET c == remove_pop(objs, classifier_id)
        d == remove_pop(c.objects, datasource_id)
    IN  IF c.exc # "" THEN [exc |-> c.exc, body |-> <<>>, objects |-> objs]
        ELSE IF d.exc # "" THEN [exc |-> d.exc, body |-> <<>>, objects |-> c.objects]
        ELSE [exc |-> "AttributeError", body |-> <<>>, objects |-> d.objects]

\* info_dict (lines 197-222): the two loads, the expected shape (an object
\* without get_expected_roi, or without roi, raises AttributeError) and the
\* document; the registry after the call is the registry before it
info_dict_view(objs, classifier_id, datasource_id) ==
    LET c == load(objs, classifier_id)
        d == load(objs, datasource_id)
    IN  IF c.exc # "" THEN [exc |-> c.exc, body |-> <<>>, objects |-> objs]
        ELSE IF d.exc # "" THEN [exc |-> d.exc, body |-> <<>>, objects |-> objs]
        ELSE IF ~issubclass(c.ret.cls, "PixelClassifier")
                \/ ~issubclass(d.ret.cls, "DataSource")
        THEN [exc |-> "AttributeError", body |-> <<>>, objects |-> objs]
        ELSE LET shape == expected_shape(c.ret, shape_of(d.ret))
             IN  [exc |-> "",
                  body |-> jsonify([type |-> "neuroglancer_multiscale_volume",
                                    data_type |-> "uint8",
                                    num_channels |-> shape.c,
                                    size |-> to_tuple_xyz(shape),
                                    resolution |-> <<1, 1, 1>>,
                                    voxel_offset |-> <<0, 0, 0>>,
                                    chunk_sizes |-> <<to_tuple_xyz(tile_shape_of(d.ret))>>,
                                    encoding |-> "raw"]),
                  objects |-> objs]

\* GET /predictions/<classifier_id>/<datasource_id>/info/
info_dict(classifier_id, datasource_id) ==
    /\ \E r \in {info_dict_view(objects, classifier_id, datasource_id)} :
       \E resp \in {ResponseOf(r.exc, r.body)} :
            /\ objects' = r.objects
            /\ last' = Call("GET info", NoneClass, datasource_id, classifier_id, NoObj,
                            r.exc, NoObj, resp.status, resp.body)
    /\ UNCHANGED <<minted, predVars, threads>>

\* the except branch of get_class_named is reached by unknown names only
OutcomesFor(name) ==
    IF class_of_name[name] = NoneClass THEN ExceptBranchOutcomes ELSE {"returns None"}

WebNext ==
    \/ \E obj \in SampleDataSources : StoreNone(obj)
    \/ \E name \in RequestedNames, form \in Forms, construct \in ConstructOutcomes :
            \E outcome \in OutcomesFor(name) : create_object(name, form, construct, outcome)
    \/ \E name \in RequestedNames, key \in Handles :
            \E outcome \in OutcomesFor(name) : remove_object(name, key, outcome)
    \/ \E name \in RequestedNames :
            \E outcome \in OutcomesFor(name) : list_objects(name, outcome)
    \/ \E classifier_id \in Handles, datasource_id \in Handles :
            info_dict(classifier_id, datasource_id)

SpecWeb == Init /\ [][WebNext]_vars

\* the fields of a form that hold a handle
Refs(form) == {k \in DOMAIN form : startswith_pointer(form[k])}

\* C13: create builds the object from a payload in which every str that starts
\* with "pointer@" has been replaced by the load of that handle, and only then
\* stores it; if a referenced handle is absent or the construction fails,
\* create fails and the registry gains no entry.
C13_CreateResolvesThenStores ==
    [][(last'.op = "POST" /\ last'.klass # NoneClass)
       => LET form == last'.form
              absent == \E k \in Refs(form) : form[k] \notin DOMAIN objects
          IN  /\ absent => last'.exc = "KeyError"
              /\ last'.exc # "" => (objects' = objects /\ minted' = minted)
              /\ last'.exc = ""
                    => /\ ~absent
                       /\ DOMAIN last'.args = DOMAIN form
                       /\ \A k \in Refs(form) :
                            last'.args[k] = ObjectValue(objects[form[k]])
                       /\ \A k \in DOMAIN form \ Refs(form) :
                            last'.args[k] = StrValue(form[k])
                       /\ last'.obj.cls = last'.klass
                       /\ last'.key \in DOMAIN objects'
                       /\ objects'[last'.key] = last'.obj
                       /\ OthersUnchanged(objects, objects', last'.key)
                       /\ last'.body = last'.key]_vars

\* an object has just been created from a form that names a stored object by
\* its handle, and is stored beside it
C13_Witness ==
    /\ last.op = "POST"
    /\ last.exc = ""
    /\ last.form.ref = Key(uuid4(1))
    /\ last.args.ref.kind = "object"
    /\ last.args.ref.obj \in ObjectPool
    /\ last.key = Key(<<"a">>)
    /\ objects[last.key] = last.obj
    /\ objects[Key(uuid4(1))] = last.args.ref.obj

\* C14: a request on /<class_name>/ (POST create, GET list, DELETE remove)
\* whose class name resolves to no class of workflow_classes is rejected as a
\* client error (a status 4xx), and the registry is left as it was: nothing is
\* constructed, added or removed.
C14_UnknownClassIsClientError ==
    [][(last'.op \in {"POST", "GET list", "DELETE"} /\ last'.klass = NoneClass)
       => (/\ last'.status \in 400..499
           /\ last'.obj = NoObj
           /\ objects' = objects)]_vars

\* C15: list_all(type_filter) returns exactly the registry entries whose stored
\* object's class is a subclass of type_filter, no such entry missing and no
\* other included, each mapped from its handle to its object, and leaves the
\* registry unchanged.
C15_ListAllIsTheSubtypeEntries ==
    [][(last'.op = "GET list" /\ last'.klass # NoneClass)
       => (/\ last'.exc = ""
           /\ \A h \in Handles :
                h \in DOMAIN last'.listing
                    <=> (h \in DOMAIN objects /\ issubclass(objects[h].cls, last'.klass))
           /\ DOMAIN last'.listing \subseteq Handles
           /\ \A h \in DOMAIN last'.listing : last'.listing[h] = objects[h]
           /\ last'.body = jsonify(last'.listing)
           /\ objects' = objects)]_vars

\* the data sources have just been listed: an entry of a subclass of DataSource
\* is in the listing, an entry of another class is not
C15_Witness ==
    /\ last.op = "GET list"
    /\ last.klass = "DataSource"
    /\ \E h \in DOMAIN last.listing : last.listing[h].cls = "SequenceDataSource"
    /\ \E h \in DOMAIN objects : h \notin DOMAIN last.listing
    /\ Cardinality(DOMAIN last.listing) >= 1

\* C18: the info endpoint is read-only and deterministic: a call leaves the
\* registry as it was, and a call that follows a call with the same two handles
\* with nothing in between answers with the same status and the same document.
C18_InfoIsReadOnlyAndDeterministic ==
    [][last'.op = "GET info"
       => (/\ objects' = objects
           /\ minted' = minted
           /\ (/\ last.op = "GET info"
               /\ last.key = last'.key
               /\ last.obj_id = last'.obj_id)
                => (last'.status = last.status /\ last'.body = last.body))]_vars

\* the document of a stored classifier and a stored data source has just been
\* sent
C18_Witness ==
    /\ last.op = "GET info"
    /\ last.status = 200
    /\ last.key \in DOMAIN objects
    /\ last.obj_id \in DOMAIN objects
    /\ last.key # last.obj_id
    /\ last.body[2].num_channels = 2
    /\ last.body[2].size = <<MaxExtent, MaxExtent, 1>>

(***************************************************************************)
(* The workflow adapter (src/ilastik/server/pixel_classification_web_      *)
(* adapter.py) over the registry.  Its web_context.store(obj) takes the    *)
(* object alone: it is the registry's store without an id.                 *)
(***************************************************************************)
\* self.web_context.store(obj)
web_context_store(objs, n, obj) == store(objs, n, None, obj)

\* _store_classifier (lines 23-27): a classifier is stored, None is not
store_classifier(objs, n, classifier_obj) ==
    IF classifier_obj # NoObj THEN web_context_store(objs, n, classifier_obj)
    ELSE [objects |-> objs, minted |-> n, key |-> <<>>]

\* the sequence in reverse order
Reverse(items) == [i \in 1..Len(items) |-> items[Len(items) + 1 - i]]

RECURSIVE store_each(_, _, _)
\* [self.web_context.store(item) for item in items] (lines 32 and 45): the
\* items are stored one after the other, the handles collected in that order
store_each(objs, n, items) ==
    IF items = <<>> THEN [objects |-> objs, minted |-> n, keys |-> <<>>]
    ELSE LET s == web_context_store(objs, n, Head(items))
             r == store_each(s.objects, s.minted, Tail(items))
         IN  [objects |-> r.objects, minted |-> r.minted, keys |-> <<s.key>> \o r.keys]

\* store_each that walks the items from the last to the first
store_each_reversed(objs, n, items) == store_each(objs, n, Reverse(items))

\* the list comprehension of lines 32 and 45
store_items(objs, n, items) == store_each(objs, n, items)

\* the items a caller hands over, and what the workflow's update returns: a
\* classifier, or None
Extractors == {[cls |-> "GaussianSmoothing", oid |-> 2], [cls |-> "GaussianSmoothing", oid |-> 5]}
Annotations == {[cls |-> "Annotation", oid |-> 6], [cls |-> "Annotation", oid |-> 7]}
UpdatedClassifiers == {NoObj, [cls |-> "VigraPixelClassifier", oid |-> 3]}

\* the lists of at most MaxItems items of a pool
Lists(pool) == UNION {[1..len -> pool] : len \in 0..MaxItems}

\* the stores shared by add_feature_extractors and add_annotations: the
\* classifier the workflow returns is stored, then the items
adapter_add(objs, n, items, classifier_obj) ==
    LET c == store_classifier(objs, n, classifier_obj)
        r == store_items(c.objects, c.minted, items)
    IN  [objects |-> r.objects, minted |-> r.minted, key |-> c.key, keys |-> r.keys]

\* add_feature_extractors (lines 29-32): the response is the handles of the
\* extractors
add_feature_extractors(extractors, classifier_obj) ==
    /\ minted + Len(extractors) + 1 <= MaxItems + 1
    /\ \E r \in {adapter_add(objects, minted, extractors, classifier_obj)} :
            /\ objects' = r.objects
            /\ minted' = r.minted
            /\ last' = [Call("add_feature_extractors", classifier_obj.cls, None, r.key,
                             classifier_obj, "", NoObj, 200, jsonify(r.keys))
                         EXCEPT !.args = extractors, !.listing = r.keys]
    /\ UNCHANGED <<predVars, threads>>

\* add_annotations (lines 41-46): the response is the handles of the
\* annotations
add_annotations(annotations, classifier_obj) ==
    /\ minted + Len(annotations) + 1 <= MaxItems + 1
    /\ \E r \in {adapter_add(objects, minted, annotations, classifier_obj)} :
            /\ objects' = r.objects
            /\ minted' = r.minted
            /\ last' = [Call("add_annotations", classifier_obj.cls, None, r.key,
                             classifier_obj, "", NoObj, 200, jsonify(r.keys))
                         EXCEPT !.args = annotations, !.listing = r.keys]
    /\ UNCHANGED <<predVars, threads>>

AdapterNext ==
    \/ \E extractors \in Lists(Extractors), c \in UpdatedClassifiers :
            add_feature_extractors(extractors, c)
    \/ \E annotations \in Lists(Annotations), c \in UpdatedClassifiers :
            add_annotations(annotations, c)

SpecAdapter == Init /\ [][AdapterNext]_vars

\* C19: add_feature_extractors and add_annotations store every item they are
\* given and return one handle per item, in input order: the handles are new
\* and pairwise different, and loading the i-th handle yields the i-th item;
\* the classifier returned by the workflow's update, when it is not None, is
\* stored too, and no entry that was in the registry before is changed.
C19_AdapterStoresItemsInOrder ==
    [][last'.op \in {"add_feature_extractors", "add_annotations"}
       => (/\ Len(last'.listing) = Len(last'.args)
           /\ last'.body = jsonify(last'.listing)
           /\ \A i \in 1..Len(last'.args) :
                /\ last'.listing[i] \notin DOMAIN objects
                /\ load(objects', last'.listing[i]) = [exc |-> "", ret |-> last'.args[i]]
                /\ \A j \in 1..Len(last'.args) :
                        i # j => last'.listing[i] # last'.listing[j]
           /\ last'.obj # NoObj
                => (/\ last'.key \notin DOMAIN objects
                    /\ load(objects', last'.key) = [exc |-> "", ret |-> last'.obj]
                    /\ \A i \in 1..Len(last'.listing) : last'.listing[i] # last'.key)
           /\ last'.obj = NoObj
                => Cardinality(DOMAIN objects')
                    = Cardinality(DOMAIN objects) + Len(last'.args)
           /\ \A h \in DOMAIN objects :
                h \in DOMAIN objects' /\ objects'[h] = objects[h])]_vars

\* two different extractors and the updated classifier have just been stored
C19_Witness ==
    /\ last.op = "add_feature_extractors"
    /\ Len(last.args) = 2
    /\ last.args[1] # last.args[2]
    /\ last.obj # NoObj
    /\ objects[last.listing[1]] = last.args[1]
    /\ objects[last.listing[2]] = last.args[2]
    /\ objects[last.key] = last.obj

(***************************************************************************)
(* Geometry: regions of interest over the axes x and y, and tiles.         *)
(* A slot of a Slice5D is <<start, stop>> (half-open) or NoSlice.          *)
(***************************************************************************)
NoSlice == <<>>

Min(a, b) == IF a <= b THEN a ELSE b
Max(a, b) == IF a >= b THEN a ELSE b

\* one axis of DataSourceSlice(...).defined(): an unbounded slot becomes the
\* subject's full extent, a bound one is clamped into it
defined_axis(slot, extent) ==
    IF slot = NoSlice THEN <<0, extent>>
    ELSE LET start == Min(Max(slot[1], 0), extent)
             stop == Min(Max(slot[2], start), extent)
         IN  <<start, stop>>

\* DataSourceSlice(datasource, **roi.to_dict()).defined() (line 143)
defined(roi, shape) ==
    [x |-> defined_axis(roi.x, shape.x), y |-> defined_axis(roi.y, shape.y)]

RECURSIVE axis_tiles_unclamped(_, _, _)
\* the walk of one axis with every tile of the full stride
axis_tiles_unclamped(start, stop, t) ==
    IF start >= stop THEN <<>>
    ELSE <<(<<start, start + t>>)>> \o axis_tiles_unclamped(start + t, stop, t)

RECURSIVE axis_tiles(_, _, _)
\* the walk of one axis: strides of t from start, the last one clamped to stop
axis_tiles(start, stop, t) ==
    IF start >= stop THEN <<>>
    ELSE <<(<<start, Min(start + t, stop)>>)>> \o axis_tiles(start + t, stop, t)

\* backed_roi.get_tiles() (line 147): the tile grid of a defined roi, x outermost
get_tiles(roi, tile_shape) ==
    LET xs == axis_tiles(roi.x[1], roi.x[2], tile_shape.x)
        ys == axis_tiles(roi.y[1], roi.y[2], tile_shape.y)
    IN  [k \in 1..(Len(xs) * Len(ys)) |->
            [x |-> xs[((k - 1) \div Len(ys)) + 1], y |-> ys[((k - 1) % Len(ys)) + 1]]]

\* the points of a defined roi
Points(roi) ==
    {<<px, py>> : px \in roi.x[1]..(roi.x[2] - 1), py \in roi.y[1]..(roi.y[2] - 1)}

\* the cells of a buffer over roi with the given number of channels
Cells(roi, channels) == Points(roi) \X (1..channels)

(***************************************************************************)
(* The raw chunk encoding (src/server.py lines 192 and 231).  An array is  *)
(* a function of the cells <<x, y, z, c>>, counted from 0 along each axis; *)
(* its shape gives the extent of each axis.                                *)
(***************************************************************************)
ArrayCells(shape) ==
    (0..(shape.x - 1)) \X (0..(shape.y - 1)) \X (0..(shape.z - 1)) \X (0..(shape.c - 1))

\* as_uint8(): the values converted to 8 bits
as_uint8(arr) == [cell \in DOMAIN arr |-> arr[cell] % 256]

RECURSIVE Flatten(_)
\* the concatenation of a sequence of sequences
Flatten(ss) == IF ss = <<>> THEN <<>> ELSE Head(ss) \o Flatten(Tail(ss))

\* tobytes in C order of the array with axes x, y, z, c: the last axis varies
\* fastest, the first slowest
tobytes_C(arr, shape) ==
    Flatten([i \in 1..shape.x |->
        Flatten([j \in 1..shape.y |->
            Flatten([k \in 1..shape.z |->
                [l \in 1..shape.c |-> arr[<<i - 1, j - 1, k - 1, l - 1>>]]])])])

\* raw("xyzc").tobytes("F"): the elements of the array with axes x, y, z, c in
\* Fortran order, one byte each: the runs along x of one y, z, c, then those of
\* the next y, then of the next z, then of the next c
tobytes_F(arr, shape) ==
    Flatten([l \in 1..shape.c |->
        Flatten([k \in 1..shape.z |->
            Flatten([j \in 1..shape.y |->
                [i \in 1..shape.x |-> arr[<<i - 1, j - 1, k - 1, l - 1>>]]])])])

\* the buffer of do_predictions over roi as an array with a z axis of extent 1
PredictionsArray(buffer, roi, channels) ==
    LET shape == [x |-> roi.x[2] - roi.x[1], y |-> roi.y[2] - roi.y[1], z |-> 1,
                  c |-> channels]
    IN  [shape |-> shape,
         data |-> [cell \in ArrayCells(shape) |->
                    buffer[<<(<<roi.x[1] + cell[1], roi.y[1] + cell[2]>>), cell[4] + 1>>]]]

(***************************************************************************)
(* do_predictions (src/server.py lines 140-154).                           *)
(***************************************************************************)
NoTile == [x |-> NoSlice, y |-> NoSlice]

\* classifier.allocate_predictions(backed_roi) (line 145): a buffer over the
\* expected roi (the roi with the classifier's channels), nothing written yet
allocate_predictions(roi, channels) == [cell \in Cells(roi, channels) |-> 0]

\* the tile a task predicts, read from the enclosing loop's variable raw_tile
\* when the task runs instead of from the task's own argument
predict_tile_loop_variable(i) == tiles[Len(tasks)]

\* the tile a task predicts: the argument `tile` it was submitted with
\* (lines 149-150, 153)
predict_tile_argument(i) == tasks[i].tile

\* predictions.set(tile_prediction, autocrop=True) (line 151): the prediction of
\* a tile covers the tile in every channel; the part inside the buffer is written
set(buffer, tile, channels) ==
    [cell \in DOMAIN buffer |->
        IF cell \in Cells(tile, channels) THEN buffer[cell] + 1 ELSE buffer[cell]]

\* datasource.retrieve: the value the data source holds in a cell, never 0
retrieve(cell) == 1 + ((cell[1][1] + 3 * cell[1][2] + 7 * cell[2]) % 255)

\* classifier.predict(tile) (line 150) of a classifier whose predict is the
\* identity: the data of the tile, in every channel
predict(tile, channels) == [cell \in Cells(tile, channels) |-> retrieve(cell)]

\* set_values that clears the cells of the buffer outside the tile
set_values_clears(buffer, tile_prediction) ==
    [cell \in DOMAIN buffer |->
        IF cell \in DOMAIN tile_prediction THEN tile_prediction[cell] ELSE 0]

\* predictions.set(tile_prediction, autocrop=True) (line 151), the data: the
\* cells of the prediction that lie inside the buffer are copied into it
set_values(buffer, tile_prediction) ==
    [cell \in DOMAIN buffer |->
        IF cell \in DOMAIN tile_prediction THEN tile_prediction[cell] ELSE buffer[cell]]

\* the classifier of a task, were it loaded from the registry when the task runs
task_classifier_reloaded(i) == load(objects, request.classifier_id).ret

\* the classifier a task calls predict on (line 150): the local variable
\* `classifier` of the call, which the closure predict_tile refers to
task_classifier(i) == classifier

\* the data source a task's tile reads from: the one backed_roi was made of
\* (line 143), which every tile of backed_roi.get_tiles() carries
task_datasource(i) == datasource

\* ThreadPoolExecutor.__exit__ with shutdown(wait=False)
executor_exit_no_wait == TRUE

\* ThreadPoolExecutor.__exit__ (line 146): shutdown(wait=True) returns once every
\* submitted task has run to its end
executor_exit_ready ==
    \A i \in 1..Len(tasks) : tasks[i].state \in {"done", "raised"}

\* what classifier.predict(tile) can do: return a prediction or raise
PredictOutcomes == {"ok", "Exception", "FeatureDataMismatchException"}

\* do_predictions ends with an exception
Fail(exc, key) ==
    /\ ppc' = "failed"
    /\ last' = Call("do_predictions", NoneClass, None, key, NoObj, exc, NoObj, 0, <<>>)

\* line 141: classifier = Context.load(classifier_id)
LoadClassifier ==
    /\ ppc = "called"
    /\ LET r == load(objects, request.classifier_id)
       IN  IF r.exc # ""
           THEN /\ Fail(r.exc, request.classifier_id)
                /\ UNCHANGED classifier
           ELSE /\ classifier' = r.ret
                /\ ppc' = "classifier loaded"
                /\ UNCHANGED last
    /\ UNCHANGED <<regVars, threads, env, request, datasource, backed_roi, tiles, tasks, predictions,
                   prediction_values>>

\* line 142: datasource = Context.load(datasource_id)
LoadDatasource ==
    /\ ppc = "classifier loaded"
    /\ LET r == load(objects, request.datasource_id)
       IN  IF r.exc # ""
           THEN /\ Fail(r.exc, request.datasource_id)
                /\ UNCHANGED datasource
           ELSE /\ datasource' = r.ret
                /\ ppc' = "loaded"
                /\ UNCHANGED last
    /\ UNCHANGED <<regVars, threads, env, request, classifier, backed_roi, tiles, tasks, predictions,
                   prediction_values>>

\* lines 143-147: backed_roi, the output buffer, the executor and the tile
\* generator; an object without the methods called raises AttributeError
Allocate ==
    /\ ppc = "loaded"
    /\ IF ~issubclass(datasource.cls, "DataSource")
       THEN /\ Fail("AttributeError", request.datasource_id)
            /\ UNCHANGED <<backed_roi, predictions, prediction_values, tiles>>
       ELSE IF ~issubclass(classifier.cls, "PixelClassifier")
       THEN /\ Fail("AttributeError", request.classifier_id)
            /\ UNCHANGED <<backed_roi, predictions, prediction_values, tiles>>
       ELSE /\ backed_roi' = defined(request.roi, env.shape)
            /\ predictions' = allocate_predictions(backed_roi', env.classes)
            /\ prediction_values' = allocate_predictions(backed_roi', env.classes)
            /\ tiles' = get_tiles(backed_roi', env.tile_shape)
            /\ ppc' = "submitting"
            /\ UNCHANGED last
    /\ UNCHANGED <<regVars, threads, env, request, classifier, datasource, tasks>>

\* line 153, one turn of the loop: executor.submit(predict_tile, raw_tile)
Submit ==
    /\ ppc = "submitting"
    /\ Len(tasks) < Len(tiles)
    /\ tasks' = Append(tasks, [tile |-> tiles[Len(tasks) + 1], state |-> "queued",
                               ran |-> NoTile, exc |-> "", clf |-> NoObj,
                               src |-> NoObj])
    /\ UNCHANGED <<regVars, threads, last, env, request, ppc, classifier, datasource, backed_roi,
                   tiles, predictions,
                   prediction_values>>

\* the loop is over: the with block of line 146 is left, which shuts the
\* executor down and waits
ExitWith ==
    /\ ppc = "submitting"
    /\ Len(tasks) = Len(tiles)
    /\ ppc' = "joining"
    /\ UNCHANGED <<regVars, threads, last, env, request, classifier, datasource, backed_roi,
                   tiles, tasks, predictions,
                   prediction_values>>

\* line 154: return predictions
Return ==
    /\ ppc = "joining"
    /\ executor_exit_ready
    /\ ppc' = "returned"
    /\ last' = Call("do_predictions", NoneClass, None, request.classifier_id, NoObj,
                    "", NoObj, 0, <<>>)
    /\ UNCHANGED <<regVars, threads, env, request, classifier, datasource, backed_roi, tiles,
                   tasks, predictions,
                   prediction_values>>

\* ng_predict, lines 192-194: do_predictions has returned and the chunk is sent
ng_predict ==
    /\ ppc = "returned"
    /\ ppc' = "responded"
    /\ LET arr == PredictionsArray(prediction_values, backed_roi, env.classes)
           resp == ResponseOf("", tobytes_F(as_uint8(arr.data), arr.shape))
       IN  last' = [last EXCEPT !.op = "GET chunk", !.status = resp.status,
                                !.body = resp.body]
    /\ UNCHANGED <<regVars, threads, env, request, classifier, datasource, backed_roi, tiles,
                   tasks, predictions,
                   prediction_values>>

\* ng_predict, line 188: do_predictions raised in the thread of the request,
\* and flask answers for the view
ng_predict_raised ==
    /\ ppc = "failed"
    /\ ppc' = "responded"
    /\ LET resp == ResponseOf(last.exc, <<>>)
       IN  last' = [last EXCEPT !.op = "GET chunk", !.status = resp.status,
                                !.body = resp.body]
    /\ UNCHANGED <<regVars, threads, env, request, classifier, datasource, backed_roi, tiles,
                   tasks, predictions,
                   prediction_values>>

\* a worker of the pool takes the oldest queued task and runs line 150 of it:
\* classifier.predict(tile) returns or raises (the future keeps the exception)
PredictTile(i, outcome) ==
    /\ ppc \in {"submitting", "joining"}
    /\ i \in 1..Len(tasks)
    /\ tasks[i].state = "queued"
    /\ \A j \in 1..(i - 1) : tasks[j].state # "queued"
    /\ Cardinality({j \in 1..Len(tasks) : tasks[j].state = "predicted"}) < MaxWorkers
    /\ tasks' = [tasks EXCEPT ![i] =
                    IF outcome = "ok"
                    THEN [@ EXCEPT !.state = "predicted", !.ran = predict_tile_argument(i),
                                   !.clf = task_classifier(i), !.src = task_datasource(i)]
                    ELSE [@ EXCEPT !.state = "raised", !.exc = outcome,
                                   !.clf = task_classifier(i), !.src = task_datasource(i)]]
    /\ UNCHANGED <<regVars, threads, last, env, request, ppc, classifier, datasource, backed_roi,
                   tiles, predictions,
                   prediction_values>>

\* line 151 of a task: predictions.set(tile_prediction, autocrop=True)
SetTile(i) ==
    /\ i \in 1..Len(tasks)
    /\ tasks[i].state = "predicted"
    /\ predictions' = set(predictions, tasks[i].ran, env.classes)
    /\ prediction_values' = set_values(prediction_values, predict(tasks[i].ran, env.classes))
    /\ tasks' = [tasks EXCEPT ![i].state = "done"]
    /\ UNCHANGED <<regVars, threads, last, env, request, ppc, classifier, datasource, backed_roi,
                   tiles>>

\* the data source and the classifier of the requests
TheDataSource == [cls |-> "SequenceDataSource", oid |-> 1]
TheClassifier == [cls |-> "VigraPixelClassifier", oid |-> 3]

\* the slots a request names for an axis of the given extent
Slots(extent) ==
    {NoSlice} \cup {<<start, stop>> : start \in 0..1, stop \in 0..(extent + 1)}

\* tile sizes of a data source along an axis
TileSizes == 2..MaxExtent

\* a registry that holds a data source and a classifier, and one request
PredInit ==
    /\ objects = (Key(<<"a">>) :> TheDataSource) @@ (Key(uuid4(1)) :> TheClassifier)
    /\ minted = 1
    /\ last = NoCall
    /\ env \in [shape : {[x |-> MaxExtent, y |-> MaxExtent]},
                tile_shape : [x : TileSizes, y : TileSizes],
                classes : {2}]
    /\ request \in [roi : [x : Slots(MaxExtent), y : Slots(MaxExtent)],
                    classifier_id : Handles,
                    datasource_id : Handles]
    /\ ppc = "called"
    /\ classifier = NoObj
    /\ datasource = NoObj
    /\ backed_roi = <<>>
    /\ tiles = <<>>
    /\ tasks = <<>>
    /\ predictions = <<>>
    /\ prediction_values = <<>>
    /\ threads = <<>>

PredNext ==
    \/ LoadClassifier
    \/ LoadDatasource
    \/ Allocate
    \/ Submit
    \/ ExitWith
    \/ Return
    \/ ng_predict
    \/ ng_predict_raised
    \/ \E i \in 1..Len(tasks), outcome \in PredictOutcomes : PredictTile(i, outcome)
    \/ \E i \in 1..Len(tasks) : SetTile(i)

SpecPred == PredInit /\ [][PredNext]_vars

(***************************************************************************)
(* Properties of do_predictions.                                           *)
(***************************************************************************)
AllTasksDone == \A i \in 1..Len(tasks) : tasks[i].state = "done"

\* C1: if a tile task raises, do_predictions does not return the buffer to its
\* caller (the request fails instead).
C1_TileFailureFailsRequest ==
    ppc = "returned" => \A i \in 1..Len(tasks) : tasks[i].state # "raised"

\* C2: do_predictions returns only after every tile task it submitted has
\* finished: at the return every tile has been submitted, no task is queued or
\* between its predict and its write, and the write of every task that wrote
\* is in the buffer.
C2_ReturnAfterAllTasks ==
    ppc = "returned"
        => /\ Len(tasks) = Len(tiles)
           /\ \A i \in 1..Len(tasks) :
                /\ tasks[i].state \in {"done", "raised"}
                /\ tasks[i].state = "done"
                    => \A cell \in Cells(tasks[i].ran, env.classes) :
                            predictions[cell] >= 1

\* do_predictions has returned after four tile tasks wrote their tiles
C2_Witness ==
    /\ ppc = "returned"
    /\ Len(tasks) = 4
    /\ AllTasksDone

\* C3: no two tile tasks write overlapping regions of the buffer, each tile is
\* predicted by the task submitted with it and by no other, and once all tasks
\* have completed without error every cell of the requested region has been
\* written exactly once.
C3_TileWritesPartitionBuffer ==
    /\ \A cell \in DOMAIN predictions : predictions[cell] <= 1
    /\ \A i \in 1..Len(tasks) :
        /\ tasks[i].tile = tiles[i]
        /\ tasks[i].ran # NoTile => tasks[i].ran = tiles[i]
        /\ \A j \in 1..Len(tasks) :
            (i # j /\ tasks[i].ran # NoTile /\ tasks[j].ran # NoTile)
                => Points(tasks[i].ran) \cap Points(tasks[j].ran) = {}
    /\ (ppc \in {"joining", "returned"} /\ AllTasksDone)
        => /\ DOMAIN predictions = Cells(backed_roi, env.classes)
           /\ \A cell \in Cells(backed_roi, env.classes) : predictions[cell] = 1

\* all four tiles of a 2 x 2 grid have been written and the call has returned
C3_Witness ==
    /\ ppc = "returned"
    /\ Len(tiles) = 4
    /\ AllTasksDone
    /\ \A cell \in Cells(backed_roi, env.classes) : predictions[cell] = 1
    /\ Cardinality(DOMAIN predictions) >= 8

\* C16: with a classifier whose predict is the identity (so no tile task raises)
\* and whose expected roi is the roi it is given, the buffer do_predictions
\* returns holds, in every cell of the requested roi and in no other, the value
\* of the data source in that cell, whatever the tile shape and the order in
\* which the tile tasks complete.
C16_IdentityPredictionEqualsData ==
    (/\ ppc = "returned" \/ (ppc = "responded" /\ last.exc = "")
     /\ \A i \in 1..Len(tasks) : tasks[i].state # "raised")
        => (/\ DOMAIN prediction_values = Cells(defined(request.roi, env.shape), env.classes)
            /\ \A cell \in DOMAIN prediction_values :
                    prediction_values[cell] = retrieve(cell))

\* do_predictions has returned a buffer of four tiles, the last of them a
\* clamped one, that equals the data
C16_Witness ==
    /\ ppc = "returned"
    /\ Len(tiles) = 4
    /\ env.tile_shape = [x |-> 2, y |-> 2]
    /\ \A i \in 1..Len(tasks) : tasks[i].state = "done"
    /\ DOMAIN prediction_values = Cells(backed_roi, env.classes)
    /\ prediction_values[<<(<<2, 2>>), 2>>] = retrieve(<<(<<2, 2>>), 2>>)
    /\ \A cell \in DOMAIN prediction_values : prediction_values[cell] # 0

\* C12: a FeatureDataMismatchException raised while a prediction request is
\* served, in the thread of the request or inside a tile's predict call, is
\* answered with status 400 and the error's message as the body, never with 200.
C12_FeatureDataMismatchAnswered400 ==
    (/\ ppc = "responded"
     /\ \/ last.exc = "FeatureDataMismatchException"
        \/ \E i \in 1..Len(tasks) : tasks[i].exc = "FeatureDataMismatchException")
        => (/\ last.status = 400
            /\ last.body = str("FeatureDataMismatchException"))

(***************************************************************************)
(* One do_predictions call while other requests change the registry.       *)
(***************************************************************************)
\* the two handles the call names
LiveHandles == {Key(<<"a">>), Key(uuid4(1))}

LiveInit ==
    /\ objects = (Key(<<"a">>) :> TheDataSource) @@ (Key(uuid4(1)) :> TheClassifier)
    /\ minted = 1
    /\ last = NoCall
    /\ env = [shape |-> [x |-> MaxExtent, y |-> MaxExtent],
              tile_shape |-> [x |-> 2, y |-> 2],
              classes |-> 2]
    /\ request \in [roi : {[x |-> NoSlice, y |-> NoSlice],
                           [x |-> <<1, MaxExtent>>, y |-> <<0, 2>>]},
                    classifier_id : {Key(uuid4(1))},
                    datasource_id : {Key(<<"a">>)}]
    /\ ppc = "called"
    /\ classifier = NoObj
    /\ datasource = NoObj
    /\ backed_roi = <<>>
    /\ tiles = <<>>
    /\ tasks = <<>>
    /\ predictions = <<>>
    /\ prediction_values = <<>>
    /\ threads = <<>>

\* another request stores an object under one of the handles (Context.store
\* with that id, lines 109-114)
OverwriteHandle(key, obj) ==
    /\ ppc \notin {"returned", "failed"}
    /\ objects' = DictSet(objects, key, obj)
    /\ UNCHANGED <<minted, last, predVars, threads>>

\* another request removes one of the handles (Context.remove with the class
\* of the entry, lines 116-121)
RemoveHandle(key) ==
    /\ ppc \notin {"returned", "failed"}
    /\ key \in DOMAIN objects
    /\ objects' = remove(objects, objects[key].cls, key).objects
    /\ UNCHANGED <<minted, last, predVars, threads>>

LiveNext ==
    \/ LoadClassifier
    \/ LoadDatasource
    \/ Allocate
    \/ Submit
    \/ ExitWith
    \/ Return
    \/ \E i \in 1..Len(tasks), outcome \in PredictOutcomes : PredictTile(i, outcome)
    \/ \E i \in 1..Len(tasks) : SetTile(i)
    \/ \E key \in LiveHandles, obj \in ObjectPool : OverwriteHandle(key, obj)
    \/ \E key \in LiveHandles : RemoveHandle(key)

SpecLive == LiveInit /\ [][LiveNext]_vars

\* C21: do_predictions resolves the two handles once, before any tile is
\* scheduled: once loaded, its classifier and its data source stay the same
\* objects whatever other requests store under or remove from the handles; no
\* task exists before both are loaded; every task predicts with that classifier
\* on that data source; and a handle that is missing when it is loaded fails
\* the call with KeyError (NotFound) with no buffer allocated and no task
\* submitted.
C21_HandlesResolvedOnceBeforeTiles ==
    [][/\ classifier # NoObj => classifier' = classifier
       /\ datasource # NoObj => datasource' = datasource
       /\ (classifier = NoObj /\ classifier' # NoObj)
            => (ppc = "called" /\ classifier' = load(objects, request.classifier_id).ret)
       /\ (datasource = NoObj /\ datasource' # NoObj)
            => (ppc = "classifier loaded"
                /\ datasource' = load(objects, request.datasource_id).ret)
       /\ (tasks' # <<>> \/ predictions' # <<>>)
            => (classifier' # NoObj /\ datasource' # NoObj)
       /\ \A i \in 1..Len(tasks') :
            tasks'[i].state # "queued"
                => (tasks'[i].clf = classifier' /\ tasks'[i].src = datasource')
       /\ (ppc = "called" /\ ppc' # ppc /\ request.classifier_id \notin DOMAIN objects)
            => (/\ ppc' = "failed"
                /\ last'.exc = "KeyError"
                /\ tasks' = <<>>
                /\ predictions' = <<>>)
       /\ (/\ ppc = "classifier loaded"
           /\ ppc' # ppc
           /\ request.datasource_id \notin DOMAIN objects)
            => (/\ ppc' = "failed"
                /\ last'.exc = "KeyError"
                /\ tasks' = <<>>
                /\ predictions' = <<>>)]_vars

\* the call has returned after its four tasks predicted with the classifier it
\* loaded, although by then the classifier's handle holds another object and
\* the data source's handle has been removed
C21_Witness ==
    /\ ppc = "returned"
    /\ Len(tasks) = 4
    /\ \A i \in 1..Len(tasks) :
            tasks[i].state = "done" /\ tasks[i].clf = TheClassifier
                /\ tasks[i].src = TheDataSource
    /\ request.classifier_id \in DOMAIN objects
    /\ objects[request.classifier_id] # classifier
    /\ request.datasource_id \notin DOMAIN objects

(***************************************************************************)
(* The tile grid on its own.                                               *)
(***************************************************************************)
\* the scenario of the specification: extent 100 along both axes, tiles of 32
ExampleRoi == [x |-> <<0, 100>>, y |-> <<0, 100>>]
ExampleTileShape == [x |-> 32, y |-> 32]

\* defined slots up to one past the largest extent
GridSlots ==
    {<<start, stop>> : start \in 0..(MaxExtent + 1), stop \in 0..(MaxExtent + 1)}

GridInit ==
    /\ objects = <<>>
    /\ minted = 0
    /\ last = NoCall
    /\ \/ /\ backed_roi \in {r \in [x : GridSlots, y : GridSlots] :
                                r.x[1] <= r.x[2] /\ r.y[1] <= r.y[2]}
          /\ env \in [tile_shape : [x : 1..MaxExtent, y : 1..MaxExtent]]
       \/ /\ backed_roi = ExampleRoi
          /\ env = [tile_shape |-> ExampleTileShape]
    /\ request = <<>>
    /\ ppc = "grid"
    /\ classifier = NoObj
    /\ datasource = NoObj
    /\ tiles = <<>>
    /\ tasks = <<>>
    /\ predictions = <<>>
    /\ prediction_values = <<>>
    /\ threads = <<>>

\* tiles = backed_roi.get_tiles()
TileGrid ==
    /\ ppc = "grid"
    /\ tiles' = get_tiles(backed_roi, env.tile_shape)
    /\ ppc' = "tiled"
    /\ UNCHANGED <<regVars, threads, last, env, request, classifier, datasource, backed_roi,
                   tasks, predictions,
                   prediction_values>>

GridNext == TileGrid

SpecGrid == GridInit /\ [][GridNext]_vars

\* the slot of a tile along an axis starts a whole number of strides from the
\* roi's start and ends one stride later or at the roi's stop
WalksAxis(slot, roislot, t) ==
    /\ \E k \in 0..(roislot[2] - roislot[1]) : slot[1] = roislot[1] + k * t
    /\ slot[1] < roislot[2]
    /\ slot[2] = Min(slot[1] + t, roislot[2])

\* C4: the tiles of tile_grid(R, T) are pairwise non-overlapping and their union
\* is exactly R; each axis is walked from R's start in strides of T[axis] with
\* the last tile clamped to R's stop; an extent of 100 with tile size 32 gives 4
\* tiles per axis, the last of size 4.
C4_TileGridIsPartition ==
    ppc = "tiled"
        => /\ \A i, j \in 1..Len(tiles) :
                i # j => Points(tiles[i]) \cap Points(tiles[j]) = {}
           /\ UNION {Points(tiles[i]) : i \in 1..Len(tiles)} = Points(backed_roi)
           /\ \A i \in 1..Len(tiles) :
                /\ WalksAxis(tiles[i].x, backed_roi.x, env.tile_shape.x)
                /\ WalksAxis(tiles[i].y, backed_roi.y, env.tile_shape.y)
           /\ (backed_roi = ExampleRoi /\ env.tile_shape = ExampleTileShape)
                => /\ Len(tiles) = 16
                   /\ {tiles[i].x : i \in 1..Len(tiles)}
                        = {<<0, 32>>, <<32, 64>>, <<64, 96>>, <<96, 100>>}
                   /\ {tiles[i].y : i \in 1..Len(tiles)}
                        = {<<0, 32>>, <<32, 64>>, <<64, 96>>, <<96, 100>>}

\* a grid whose last tile along each axis is clamped has been computed
C4_Witness ==
    /\ ppc = "tiled"
    /\ backed_roi = [x |-> <<1, 4>>, y |-> <<0, 3>>]
    /\ env.tile_shape = [x |-> 2, y |-> 2]
    /\ Len(tiles) = 4
    /\ tiles[4] = [x |-> <<3, 4>>, y |-> <<2, 3>>]

(***************************************************************************)
(* The raw chunk responses on their own, for buffers with a z axis.        *)
(***************************************************************************)
\* the scenario of the specification: region 0-10_0-10_0-1, two channels
ExampleChunk == [x |-> 10, y |-> 10, z |-> 1, c |-> 2]

\* the shapes of the buffers served
ChunkShapes ==
    [x : 1..MaxExtent, y : 1..MaxExtent, z : 1..MaxExtent, c : 1..2] \cup {ExampleChunk}

\* the value a buffer of the given shape holds in a cell
voxel(cell) == 11 * cell[1] + 37 * cell[2] + 151 * cell[3] + 59 * cell[4]

\* a prediction buffer, or the data retrieved from a data source, is at hand
ChunkInit ==
    /\ objects = <<>>
    /\ minted = 0
    /\ last = NoCall
    /\ env \in [shape : ChunkShapes]
    /\ request = <<>>
    /\ ppc = "chunk"
    /\ classifier = NoObj
    /\ datasource = NoObj
    /\ backed_roi = <<>>
    /\ tiles = <<>>
    /\ tasks = <<>>
    /\ predictions = <<>>
    /\ prediction_values = [cell \in ArrayCells(env.shape) |-> voxel(cell)]
    /\ threads = <<>>

\* ng_predict, lines 192-194: the response made of the predictions
ng_predict_response ==
    /\ ppc = "chunk"
    /\ ppc' = "predictions sent"
    /\ LET resp == ResponseOf("", tobytes_F(as_uint8(prediction_values), env.shape))
       IN  last' = [NoCall EXCEPT !.op = "GET chunk", !.status = resp.status,
                                  !.body = resp.body]
    /\ UNCHANGED <<regVars, threads, env, request, classifier, datasource, backed_roi, tiles,
                   tasks, predictions, prediction_values>>

\* ng_raw, lines 231-233: the response made of the data of a data source of
\* 8-bit values
ng_raw_response ==
    /\ ppc = "chunk"
    /\ ppc' = "raw sent"
    /\ LET data == [cell \in ArrayCells(env.shape) |-> prediction_values[cell] % 256]
           resp == ResponseOf("", tobytes_F(data, env.shape))
       IN  last' = [NoCall EXCEPT !.op = "GET raw", !.status = resp.status,
                                  !.body = resp.body]
    /\ UNCHANGED <<regVars, threads, env, request, classifier, datasource, backed_roi, tiles,
                   tasks, predictions, prediction_values>>

ChunkNext ==
    \/ ng_predict_response
    \/ ng_raw_response

SpecChunk == ChunkInit /\ [][ChunkNext]_vars

Threads == {"t1", "t2"}

\* the classes, ids, handles and objects the concurrent calls name
ConcClasses == {"DataSource", "FeatureExtractor"}
ConcIds == {<<"a">>, <<"b">>}
ConcHandles == {Key(id) : id \in ConcIds}
ConcObjects == {obj \in ObjectPool : obj.oid <= 2}

\* a thread between two calls, with the outcome of its last call: `checked` is
\* the object remove's type check saw, `listing` the mapping get_all returned
Idle(op, klass, key, checked, exc, ret, listing) ==
    [pc |-> "idle", op |-> op, klass |-> klass, key |-> key, checked |-> checked,
     exc |-> exc, ret |-> ret, listing |-> listing, used |-> 0, visited |-> {}]

ConcInit ==
    /\ objects = <<>>
    /\ minted = 0
    /\ last = NoCall
    /\ PredIdle
    /\ threads = [t \in Threads |-> Idle("none", NoneClass, <<>>, NoObj, "", NoObj, <<>>)]

ConcFrame == UNCHANGED <<last, predVars>>

\* Context.store: one dict assignment
ConcStore(t, obj_id, obj) ==
    /\ threads[t].pc = "idle"
    /\ LET r == store(objects, minted, obj_id, obj)
       IN  /\ objects' = r.objects
           /\ minted' = r.minted
           /\ threads' = [threads EXCEPT ![t] =
                            Idle("store", obj.cls, r.key, NoObj, "", obj, <<>>)]
    /\ ConcFrame

\* Context.load: one dict lookup
ConcLoad(t, key) ==
    /\ threads[t].pc = "idle"
    /\ LET r == load(objects, key)
       IN  threads' = [threads EXCEPT ![t] =
                            Idle("load", NoneClass, key, NoObj, r.exc, r.ret, <<>>)]
    /\ UNCHANGED regVars
    /\ ConcFrame

\* Context.remove, lines 118-120: the lookup and the type check
ConcRemoveCheck(t, klass, key) ==
    /\ threads[t].pc = "idle"
    /\ LET exc == remove_check(objects, klass, key)
           seen == load(objects, key).ret
       IN  threads' = [threads EXCEPT ![t] =
                IF exc # "" THEN Idle("remove", klass, key, seen, exc, NoObj, <<>>)
                ELSE [Idle("remove", klass, key, seen, "", NoObj, <<>>)
                        EXCEPT !.pc = "remove: line 121"]]
    /\ UNCHANGED regVars
    /\ ConcFrame

\* Context.remove, line 121: the pop
ConcRemovePop(t) ==
    /\ threads[t].pc = "remove: line 121"
    /\ LET r == remove_pop(objects, threads[t].key)
       IN  /\ objects' = r.objects
           /\ threads' = [threads EXCEPT ![t] =
                            [@ EXCEPT !.pc = "idle", !.exc = r.exc, !.ret = r.ret]]
    /\ UNCHANGED minted
    /\ ConcFrame

\* Context.get_all, line 137: cls.objects.items() is iterated; the iterator
\* remembers the size of the dict
ConcGetAllStart(t, klass) ==
    /\ threads[t].pc = "idle"
    /\ threads' = [threads EXCEPT ![t] =
                    [Idle("get_all", klass, <<>>, NoObj, "", NoObj, <<>>)
                        EXCEPT !.pc = "get_all: iterating",
                               !.used = Cardinality(DOMAIN objects)]]
    /\ UNCHANGED regVars
    /\ ConcFrame

\* one step of the dict comprehension of line 137: the iterator raises
\* RuntimeError when the dict has changed size, ends when no entry is left, and
\* otherwise yields an entry not yet visited, which is kept if it is an instance
\* of klass (the order in which entries are visited is left open)
ConcGetAllNext(t) ==
    /\ threads[t].pc = "get_all: iterating"
    /\ LET th == threads[t]
           left == DOMAIN objects \ th.visited
       IN  IF Cardinality(DOMAIN objects) # th.used
           THEN threads' = [threads EXCEPT ![t] =
                    [@ EXCEPT !.pc = "idle", !.exc = "RuntimeError", !.listing = <<>>,
                              !.used = 0, !.visited = {}]]
           ELSE IF left = {}
           THEN threads' = [threads EXCEPT ![t] =
                    [@ EXCEPT !.pc = "idle", !.used = 0, !.visited = {}]]
           ELSE \E k \in left :
                threads' = [threads EXCEPT ![t] =
                    [@ EXCEPT !.visited = @ \cup {k},
                              !.listing = IF issubclass(objects[k].cls, th.klass)
                                          THEN DictSet(@, k, objects[k]) ELSE @]]
    /\ UNCHANGED regVars
    /\ ConcFrame

ConcNext ==
    \E t \in Threads :
        \/ \E id \in ConcIds, obj \in ConcObjects : ConcStore(t, id, obj)
        \/ \E key \in ConcHandles : ConcLoad(t, key)
        \/ \E klass \in ConcClasses, key \in ConcHandles : ConcRemoveCheck(t, klass, key)
        \/ ConcRemovePop(t)
        \/ \E klass \in ConcClasses : ConcGetAllStart(t, klass)
        \/ ConcGetAllNext(t)

SpecConc == ConcInit /\ [][ConcNext]_vars

\* C5: the calls of concurrent requests on the registry are mutually exclusive:
\* each takes effect as if run alone at one instant.  So remove's type check and
\* its pop apply to the same entry (a remove that passed the check returns an
\* object of the expected class and does not fail), and get_all never fails
\* because of a concurrent store or remove.
C5_RegistryCallsAreAtomic ==
    \A t \in Threads :
        /\ (threads[t].op = "remove" /\ threads[t].pc = "idle"
                /\ threads[t].checked # NoObj
                /\ issubclass(threads[t].checked.cls, threads[t].klass))
            => (threads[t].exc = "" /\ threads[t].ret = threads[t].checked)
        /\ threads[t].op = "get_all" => threads[t].exc = ""

(***************************************************************************)
(* Two prediction requests at the same time.  Each request thread runs     *)
(* do_predictions with its own local variables (classifier, datasource,    *)
(* backed_roi, predictions) and its own ThreadPoolExecutor; the registry   *)
(* and the objects in it are shared.  `threads` holds, for each request,   *)
(* the local variables of its call.                                        *)
(***************************************************************************)
\* the rois of the two requests: the whole data source, and a part of it
TwoRois == {[x |-> NoSlice, y |-> NoSlice], [x |-> <<1, MaxExtent>>, y |-> <<0, 2>>]}

\* the local variables of a do_predictions call that has just been entered;
\* `writers` is, for each cell of the buffer, the tasks that wrote it, and
\* `overlapped` whether a task of the call wrote while the other call ran
Entered(roi) ==
    [ppc |-> "called", roi |-> roi, classifier |-> NoObj, datasource |-> NoObj,
     backed_roi |-> <<>>, tiles |-> <<>>, tasks |-> <<>>, values |-> <<>>,
     writers |-> <<>>, overlapped |-> FALSE, exc |-> ""]

TwoInit ==
    /\ objects = (Key(<<"a">>) :> TheDataSource) @@ (Key(uuid4(1)) :> TheClassifier)
    /\ minted = 1
    /\ last = NoCall
    /\ env = [shape |-> [x |-> MaxExtent, y |-> MaxExtent],
              tile_shape |-> [x |-> 2, y |-> 2],
              classes |-> 2]
    /\ request = [classifier_id |-> Key(uuid4(1)), datasource_id |-> Key(<<"a">>)]
    /\ ppc = "idle"
    /\ classifier = NoObj
    /\ datasource = NoObj
    /\ backed_roi = <<>>
    /\ tiles = <<>>
    /\ tasks = <<>>
    /\ predictions = <<>>
    /\ prediction_values = <<>>
    /\ threads \in [Threads -> {Entered(roi) : roi \in TwoRois}]

TwoFrame ==
    UNCHANGED <<regVars, last, env, request, ppc, classifier, datasource, backed_roi,
                tiles, tasks, predictions, prediction_values>>

\* the buffer the closure predict_tile of a call writes to, were `predictions`
\* a name shared by all calls instead of a local variable
closure_predictions_shared(t) == "t1"

\* the buffer the closure predict_tile of the call of thread t writes to: the
\* local variable `predictions` of that call (lines 145, 149-151)
closure_predictions(t) == t

\* lines 141-147 of the call of thread t: the loads, the defined roi, the
\* buffer, the executor and the tile generator
TwoStart(t) ==
    /\ threads[t].ppc = "called"
    /\ \E c \in {load(objects, request.classifier_id)} :
       \E d \in {load(objects, request.datasource_id)} :
            IF c.exc # "" \/ d.exc # ""
            THEN threads' = [threads EXCEPT ![t].ppc = "failed", ![t].exc = "KeyError"]
            ELSE \E b \in {defined(threads[t].roi, env.shape)} :
                    threads' = [threads EXCEPT
                        ![t].ppc = "submitting",
                        ![t].classifier = c.ret,
                        ![t].datasource = d.ret,
                        ![t].backed_roi = b,
                        ![t].values = allocate_predictions(b, env.classes),
                        ![t].writers = [cell \in Cells(b, env.classes) |-> {}],
                        ![t].tiles = get_tiles(b, env.tile_shape)]
    /\ TwoFrame

\* line 153 of the call of thread t
TwoSubmit(t) ==
    /\ threads[t].ppc = "submitting"
    /\ Len(threads[t].tasks) < Len(threads[t].tiles)
    /\ threads' = [threads EXCEPT ![t].tasks =
                    Append(@, [tile |-> threads[t].tiles[Len(@) + 1], state |-> "queued",
                               ran |-> NoTile])]
    /\ TwoFrame

\* the with block of the call of thread t is left
TwoExitWith(t) ==
    /\ threads[t].ppc = "submitting"
    /\ Len(threads[t].tasks) = Len(threads[t].tiles)
    /\ threads' = [threads EXCEPT ![t].ppc = "joining"]
    /\ TwoFrame

\* a worker of the pool of the call of thread t runs line 150 of its oldest
\* queued task
TwoPredictTile(t, i) ==
    /\ threads[t].ppc \in {"submitting", "joining"}
    /\ i \in 1..Len(threads[t].tasks)
    /\ threads[t].tasks[i].state = "queued"
    /\ \A j \in 1..(i - 1) : threads[t].tasks[j].state # "queued"
    /\ Cardinality({j \in 1..Len(threads[t].tasks) :
                        threads[t].tasks[j].state = "predicted"}) < MaxWorkers
    /\ threads' = [threads EXCEPT ![t].tasks[i] =
                    [@ EXCEPT !.state = "predicted", !.ran = threads[t].tasks[i].tile]]
    /\ TwoFrame

\* line 151 of a task of the call of thread t: the prediction is written into
\* the buffer of the closure
TwoSetTile(t, i) ==
    /\ i \in 1..Len(threads[t].tasks)
    /\ threads[t].tasks[i].state = "predicted"
    /\ \E target \in {closure_predictions(t)} :
       \E written \in {predict(threads[t].tasks[i].ran, env.classes)} :
            threads' = [threads EXCEPT
                ![t].tasks[i].state = "done",
                ![t].overlapped = @ \/ \E u \in Threads \ {t} :
                                        threads[u].ppc \in {"submitting", "joining"},
                ![target].values = set_values(@, written),
                ![target].writers = [cell \in DOMAIN @ |->
                                        IF cell \in DOMAIN written
                                        THEN @[cell] \cup {<<t, i>>} ELSE @[cell]]]
    /\ TwoFrame

\* line 154 of the call of thread t, once the executor has shut down
TwoReturn(t) ==
    /\ threads[t].ppc = "joining"
    /\ \A i \in 1..Len(threads[t].tasks) : threads[t].tasks[i].state = "done"
    /\ threads' = [threads EXCEPT ![t].ppc = "returned"]
    /\ TwoFrame

TwoNext ==
    \E t \in Threads :
        \/ TwoStart(t)
        \/ TwoSubmit(t)
        \/ TwoExitWith(t)
        \/ \E i \in 1..Len(threads[t].tasks) : TwoPredictTile(t, i)
        \/ \E i \in 1..Len(threads[t].tasks) : TwoSetTile(t, i)
        \/ TwoReturn(t)

SpecTwo == TwoInit /\ [][TwoNext]_vars

RECURSIVE write_tiles(_, _, _)
\* the buffer after the predictions of the tiles have been written one by one
write_tiles(buffer, tls, channels) ==
    IF tls = <<>> THEN buffer
    ELSE write_tiles(set_values(buffer, predict(Head(tls), channels)), Tail(tls), channels)

\* the buffer do_predictions returns for roi when no other request runs
run_alone(roi) ==
    LET b == defined(roi, env.shape)
    IN  write_tiles(allocate_predictions(b, env.classes), get_tiles(b, env.tile_shape),
                    env.classes)

\* C20: two concurrent do_predictions requests do not interfere: each has a
\* buffer and a pool of its own, every tile task writes only into the buffer of
\* the request that submitted it (each cell once, by one task of that request),
\* and the buffer a request returns equals the buffer it returns when run alone.
C20_RequestsDoNotInterfere ==
    \A t \in Threads :
        /\ \A cell \in DOMAIN threads[t].writers :
                /\ threads[t].writers[cell] \subseteq {t} \X (1..Len(threads[t].tasks))
                /\ Cardinality(threads[t].writers[cell]) <= 1
        /\ Cardinality({i \in 1..Len(threads[t].tasks) :
                            threads[t].tasks[i].state = "predicted"}) <= MaxWorkers
        /\ threads[t].ppc = "returned"
            => (/\ threads[t].values = run_alone(threads[t].roi)
                /\ \A cell \in DOMAIN threads[t].writers :
                        Cardinality(threads[t].writers[cell]) = 1)

\* both requests have returned, for different rois, after tasks of each wrote
\* while the other call was under way
C20_Witness ==
    /\ \A t \in Threads : threads[t].ppc = "returned" /\ threads[t].overlapped
    /\ threads["t1"].roi # threads["t2"].roi
    /\ \E t \in Threads : Len(threads[t].tasks) = 4

====
